---- MODULE Spec2Model ----
(***************************************************************************)
(* Try-Push records, their two secondary indices and the Try-Commit        *)
(* builder of sync/trypush.py, as a state machine.                         *)
(*                                                                         *)
(* A process name try/<sync-type>/<pr-id>/<seq> is the pair <<s, q>>: s    *)
(* stands for the (sync-type, pr-id) pair of a Sync and q for the sequence *)
(* id.  Revisions, commits and task-group ids are small positive numbers   *)
(* and None (Python's None) is 0.                                          *)
(***************************************************************************)
EXTENDS Integers, Sequences, FiniteSets, TLC

VARIABLES pushes,    \* process name -> stored data of each existing Try-Push
          seq,       \* per Sync: the next sequence id
          tryIdx,    \* TryCommitIndex: set of <<key, value>> entries
          tgIdx,     \* TaskGroupIndex: set of <<key, value>> entries
          wt,        \* per Sync: its gecko worktree [head, dirty]
          comments,  \* comments posted to the defect tracker, in order
          last,      \* the latest operation: arguments, outcome, values before
          lock,      \* per Sync: the worker holding the lock of its pair, or None
          calls,     \* per worker: the create() call it is in and how far it got
          made,      \* the process names persisted by create(), in order
          session    \* the Sync of each known PR and the cached PR metadata

vars == <<pushes, seq, tryIdx, tgIdx, wt, comments, last, lock, calls, made, session>>

\* what the operations on one stored Try-Push leave alone
others == <<lock, calls, made, session>>

----------------------------------------------------------------------------
(* Bounds of the model *)

MaxPushes == 2
NumRevs == 2
NumTaskIds == 1
MaxComments == 3
MaxCommit == 4
MaxTests == 2
MaxTasks == 3

None == 0

\* two Syncs: Sync 1 has a bug attached, Sync 2 has none
Syncs == {1, 2}
Names == Syncs \X (1..MaxPushes)
Revs == 1..NumRevs
\* canonical task-group ids, and the alternate encodings pulse delivers
CanonIds == 1..NumTaskIds
RawIds == (NumTaskIds + 1)..(2 * NumTaskIds)
TaskIds == CanonIds \cup RawIds
\* what the submission tool prints: two chunks, each either plain text (None)
\* or an occurrence of "revision=<r>"
Outputs == [1..2 -> {None} \cup Revs]
NoName == <<>>

----------------------------------------------------------------------------
(* TryPush class attributes *)

statuses == {"open", "complete", "infra-fail"}

status_transitions_extra == {<<"open", "complete">>, <<"complete", "open">>,
                             <<"infra-fail", "complete">>, <<"open", "infra-fail">>}

status_transitions == {<<"open", "complete">>,
                       <<"complete", "open">>,
                       <<"infra-fail", "complete">>}

----------------------------------------------------------------------------
(* The Sync a Try-Push is made for *)

\* sync.bug
SyncBug(s) == IF s = 1 THEN s ELSE None

\* the commit the Sync's gecko worktree is checked out at
BaseCommit(s) == s

\* the commit that index.commit() makes on top of commit c
HackCommit(c) == c + Cardinality(Syncs)

\* cinnabar.git2hg: the hg revision of a git commit
Git2Hg(c) == (c % NumRevs) + 1

----------------------------------------------------------------------------
(* Index store: entries <<key, value>>; a unique index holds at most one     *)
(* value per key.                                                            *)

MakeKey(v) == <<v>>

IdxGet(idx, key) ==
    IF \E e \in idx : e[1] = key
    THEN (CHOOSE e \in idx : e[1] = key)[2]
    ELSE NoName

\* insert rejects a second, different value for a key (uniqueness)
IdxInsert(idx, key, value) ==
    IF \E e \in idx : e[1] = key /\ e[2] # value
    THEN [err |-> "ValueError", idx |-> idx]
    ELSE [err |-> "none", idx |-> idx \cup {<<key, value>>}]

\* delete removes the entry (key, value), and nothing when it is not there
IdxDelete(idx, key, value) == idx \ {<<key, value>>}

----------------------------------------------------------------------------
(* Try-Commit builder (TryCommit / TryFuzzyCommit) *)

\* TryFuzzyCommit.create, run by __enter__.  entry says how it ends: "ok", or an
\* error raised by apply_hacks ("apply_hacks"), by index.commit before it makes
\* the commit ("commit") or by index.commit after it made it ("post_commit")
TryCommitEnter(hacks, w, entry) ==
    IF ~hacks
    THEN [err |-> "none", w |-> w, reset |-> None]
    ELSE IF entry = "ok"
         THEN [err |-> "none",
               w |-> [head |-> HackCommit(w.head), dirty |-> FALSE],
               reset |-> w.head]
         ELSE IF entry = "post_commit"
              THEN [err |-> "Error",
                    w |-> [head |-> HackCommit(w.head), dirty |-> FALSE],
                    reset |-> w.head]
              ELSE \* the file is written and staged, no commit is made
                   [err |-> "Error", w |-> [w EXCEPT !.dirty = TRUE],
                    reset |-> w.head]

\* TryCommit.cleanup, run by __exit__
cleanup(reset, w) ==
    IF reset # None
    THEN [head |-> reset, dirty |-> FALSE]
    ELSE w

\* rev_re.search(output): the first revision=<rev> of the output
RevSearch(output) ==
    IF \E i \in DOMAIN output : output[i] # None
    THEN output[CHOOSE i \in DOMAIN output :
                    /\ output[i] # None
                    /\ \A j \in DOMAIN output : j < i => output[j] = None]
    ELSE None

read_treeherder_nocheck(status, output, headsha, bridge_ok) ==
    IF RevSearch(output) = None
    THEN [err |-> "none", rev |-> IF bridge_ok THEN Git2Hg(headsha) ELSE None]
    ELSE [err |-> "none", rev |-> RevSearch(output)]

\* TryCommit.read_treeherder
read_treeherder(status, output, headsha, bridge_ok) ==
    IF status # 0
    THEN [err |-> "RetryableError", rev |-> None]
    ELSE IF RevSearch(output) = None
         THEN [err |-> "none", rev |-> IF bridge_ok THEN Git2Hg(headsha) ELSE None]
         ELSE [err |-> "none", rev |-> RevSearch(output)]

----------------------------------------------------------------------------
(* Try-Push record: the data of one record and its setters.  Each setter     *)
(* returns the error it raises ("none" when it returns normally) and the     *)
(* values it leaves behind.                                                  *)

NewData_infra_fail(s, try_rev) ==
    [try_rev |-> try_rev, taskgroup_id |-> None, status |-> "infra-fail",
     infra_fail |-> "none", bug |-> SyncBug(s)]

\* the data create() stores
NewData(s, try_rev) ==
    [try_rev |-> try_rev, taskgroup_id |-> None, status |-> "open",
     infra_fail |-> "none", bug |-> SyncBug(s)]

status_set_nocheck(rec, value) ==
    IF value \notin statuses
    THEN [err |-> "ValueError", rec |-> rec]
    ELSE [err |-> "none", rec |-> [rec EXCEPT !.status = value]]

status_set_reset(rec, value) ==
    IF value \notin statuses
    THEN [err |-> "ValueError", rec |-> rec]
    ELSE IF rec.status = value
         THEN [err |-> "none", rec |-> rec]
         ELSE IF <<rec.status, value>> \notin status_transitions
              THEN [err |-> "ValueError", rec |-> rec]
              ELSE [err |-> "none",
                    rec |-> [rec EXCEPT !.status = value, !.infra_fail = "none"]]

\* TryPush.status setter
status_set(rec, value) ==
    IF value \notin statuses
    THEN [err |-> "ValueError", rec |-> rec]
    ELSE IF rec.status = value
         THEN [err |-> "none", rec |-> rec]
         ELSE IF <<rec.status, value>> \notin status_transitions
              THEN [err |-> "ValueError", rec |-> rec]
              ELSE [err |-> "none", rec |-> [rec EXCEPT !.status = value]]

\* TryPush.notify_failed_builds: the comments it posts, given the failed builds
notify_failed_builds(rec, failed) ==
    IF failed = <<>>
    THEN <<>>
    ELSE IF rec.bug = None
         THEN <<>>
         ELSE << [bug |-> rec.bug, kind |-> "infra", rev |-> rec.try_rev,
                  builds |-> failed] >>

infra_fail_set_every_time(rec, value, failed) ==
    [err |-> "none",
     rec |-> [rec EXCEPT !.infra_fail = value],
     posts |-> IF value = "true"
               THEN notify_failed_builds([rec EXCEPT !.infra_fail = value], failed)
               ELSE <<>>]

\* TryPush.infra_fail setter
infra_fail_set(rec, value, failed) ==
    IF value = rec.infra_fail
    THEN [err |-> "none", rec |-> rec, posts |-> <<>>]
    ELSE [err |-> "none",
          rec |-> [rec EXCEPT !.infra_fail = value],
          posts |-> IF value = "true"
                    THEN notify_failed_builds([rec EXCEPT !.infra_fail = value], failed)
                    ELSE <<>>]

infra_fail_get_pure(rec, failed) ==
    [err |-> "none", rec |-> rec, posts |-> <<>>,
     out |-> IF rec.infra_fail = "none" THEN "false" ELSE rec.infra_fail]

\* TryPush.infra_fail getter
infra_fail_get(rec, failed) ==
    IF rec.status = "infra-fail"
    THEN LET st == status_set(rec, "complete")
             fl == infra_fail_set(st.rec, "true", failed)
         IN [err |-> IF st.err # "none" THEN st.err ELSE fl.err,
             rec |-> IF st.err # "none" THEN st.rec ELSE fl.rec,
             posts |-> IF st.err # "none" THEN <<>> ELSE fl.posts,
             out |-> IF st.err # "none" THEN "none"
                     ELSE IF fl.rec.infra_fail = "none" THEN "false"
                          ELSE fl.rec.infra_fail]
    ELSE [err |-> "none", rec |-> rec, posts |-> <<>>,
          out |-> IF rec.infra_fail = "none" THEN "false" ELSE rec.infra_fail]

\* TryPush.try_rev setter
try_rev_set(rec, idx, p, value) ==
    LET idx1 == IF rec.try_rev # None
                THEN IdxDelete(idx, MakeKey(rec.try_rev), p)
                ELSE idx
        rec1 == [rec EXCEPT !.try_rev = value]
    IN  IF value = None
        THEN \* no key is made from None: make_key raises before the insert
             [err |-> "TypeError", rec |-> rec1, idx |-> idx1]
        ELSE LET ins == IdxInsert(idx1, MakeKey(value), p)
             IN  [err |-> ins.err, rec |-> rec1, idx |-> ins.idx]

\* TryPush.taskgroup_id setter
taskgroup_id_set(rec, idx, p, value) ==
    LET rec1 == [rec EXCEPT !.taskgroup_id = value]
    IN  IF value # None
        THEN LET ins == IdxInsert(idx, MakeKey(value), p)
             IN  [err |-> ins.err, rec |-> rec1, idx |-> ins.idx]
        ELSE [err |-> "none", rec |-> rec1, idx |-> idx]

\* tc.normalize_task_id: the canonical form of a task-group id
normalize_task_id(t) == IF t \in RawIds THEN t - NumTaskIds ELSE t

\* the value TryPush.delete hands to Index.delete: the indexed datum itself
DataValue(d) == <<d>>

\* TryPush.for_commit / for_taskgroup
for_commit(sha1) == IdxGet(tryIdx, MakeKey(sha1))
for_taskgroup(t) == IdxGet(tgIdx, MakeKey(t))

\* tc.SUCCESS, tc.FAIL: the states of a task
SUCCESS == "completed"
FAIL == "failed"

included_first_only(name, state, exclude) == name \notin exclude

\* included(t) of download_logs, its result: a task whose name is on the
\* excluded list is kept only when its state is SUCCESS
included(name, state, exclude) == name \notin exclude \/ state = SUCCESS

RECURSIVE included_from(_, _, _, _)
\* wpt_tasks.filter(included) of download_logs: the positions of the tasks kept,
\* scanning from position i with the names excluded so far
included_from(wpt_tasks, i, exclude, first_only) ==
    IF i > Len(wpt_tasks)
    THEN <<>>
    ELSE LET name == wpt_tasks[i].name
             output == included(name, wpt_tasks[i].state, exclude)
             exclude1 == IF first_only /\ name # None /\ name \notin exclude
                         THEN exclude \cup {name}
                         ELSE exclude
         IN  (IF output THEN <<i>> ELSE <<>>)
                 \o included_from(wpt_tasks, i + 1, exclude1, first_only)

\* TryPush.download_logs: out holds the directory (the try-rev) and the tasks
\* whose logs are downloaded
download_logs(rec, idx, p, wpt_tasks, first_only) ==
    LET back == IF rec.try_rev = None /\ wpt_tasks # <<>>
                THEN IF wpt_tasks[1].rev # None
                     THEN try_rev_set(rec, idx, p, wpt_tasks[1].rev)
                     ELSE [err |-> "ValueError", rec |-> rec, idx |-> idx]
                ELSE [err |-> "none", rec |-> rec, idx |-> idx]
    IN  IF back.err # "none"
        THEN [err |-> back.err, rec |-> back.rec, idx |-> back.idx, out |-> <<>>]
        ELSE IF back.rec.try_rev = None
             THEN \* log_path() joins a path with None
                  [err |-> "AttributeError", rec |-> back.rec, idx |-> back.idx,
                   out |-> <<>>]
             ELSE [err |-> "none", rec |-> back.rec, idx |-> back.idx,
                   out |-> [path |-> back.rec.try_rev,
                            tasks |-> included_from(wpt_tasks, 1, {}, first_only)]]

----------------------------------------------------------------------------
(* TryPush.create, as the values it leaves behind *)

\* base.ProcessName.with_seq_id: the next sequence id under the Sync
with_seq_id(s) == <<s, seq[s]>>

AddPush(ps, name, data) ==
    [n \in DOMAIN ps \cup {name} |-> IF n = name THEN data ELSE ps[n]]

TryPushCreate(s, check_open, is_open, hacks, entry, status, output, bridge_ok) ==
    LET w0 == wt[s]
        same == [err |-> "RetryableError", w |-> w0, seq |-> seq, pushes |-> pushes,
                 tryIdx |-> tryIdx, comments |-> comments, name |-> <<s, 0>>,
                 ran |-> FALSE, inscope |-> w0.head]
    IN  IF check_open /\ ~is_open
        THEN same
        ELSE
        LET en == TryCommitEnter(hacks, w0, entry)
        IN  IF en.err # "none"
            THEN \* __enter__ raised: __exit__ is not run
                 [same EXCEPT !.err = en.err, !.w = en.w, !.inscope = en.w.head]
            ELSE
            LET w1 == [en.w EXCEPT !.dirty = FALSE]   \* git reset --hard
                rt == read_treeherder(status, output, w1.head, bridge_ok)
                w2 == cleanup(en.reset, w1)
            IN  IF rt.err # "none"
                THEN [same EXCEPT !.err = rt.err, !.w = w2, !.ran = TRUE,
                                  !.inscope = w1.head]
                ELSE
                LET name == with_seq_id(s)
                    ps == AddPush(pushes, name, NewData(s, rt.rev))
                    ins == IF rt.rev # None
                           THEN IdxInsert(tryIdx, MakeKey(rt.rev), name)
                           ELSE [err |-> "none", idx |-> tryIdx]
                    done == [err |-> ins.err, w |-> w2,
                             seq |-> [seq EXCEPT ![s] = @ + 1],
                             pushes |-> ps, tryIdx |-> ins.idx,
                             comments |-> comments, name |-> name,
                             ran |-> TRUE, inscope |-> w1.head]
                IN  IF ins.err # "none"
                    THEN done
                    ELSE [done EXCEPT !.comments =
                              Append(comments,
                                     [bug |-> SyncBug(s), kind |-> "try",
                                      rev |-> rt.rev, builds |-> <<>>])]

----------------------------------------------------------------------------
(* State machine *)

\* the workers that run create() calls side by side
Workers == {1, 2}

\* a worker that is in no create() call
IdleCall == [pc |-> "idle", s |-> None, try_rev |-> None, name |-> NoName,
             posted |-> 0, op |-> "none", value |-> None]

RECURSIVE Created(_)
\* the number of sequence ids handed out so far, over the Syncs of S
Created(S) ==
    IF S = {} THEN 0
    ELSE LET s == CHOOSE x \in S : TRUE
         IN  (seq[s] - 1) + Created(S \ {s})

\* the state after construction, but for the latest operation
InitStore ==
    /\ pushes = <<>>
    /\ seq = [s \in Syncs |-> 1]
    /\ tryIdx = {}
    /\ tgIdx = {}
    /\ wt = [s \in Syncs |-> [head |-> BaseCommit(s), dirty |-> FALSE]]
    /\ comments = <<>>
    /\ lock = {}
    /\ calls = [w \in Workers |-> IdleCall]
    /\ made = <<>>
    /\ session = [sync |-> <<>>, pulls |-> {}]

Init ==
    /\ pushes = <<>>
    /\ seq = [s \in Syncs |-> 1]
    /\ tryIdx = {}
    /\ tgIdx = {}
    /\ wt = [s \in Syncs |-> [head |-> BaseCommit(s), dirty |-> FALSE]]
    /\ comments = <<>>
    /\ last = [op |-> "init", name |-> NoName, arg |-> <<>>, err |-> "none",
               pre |-> <<>>, out |-> <<>>]
    /\ lock = {}
    /\ calls = [w \in Workers |-> IdleCall]
    /\ made = <<>>
    /\ session = [sync |-> <<>>, pulls |-> {}]

Create(s, check_open, is_open, hacks, entry, status, output, bridge_ok) ==
    /\ Created(Syncs) < MaxPushes
    /\ Len(comments) < MaxComments
    /\ hacks => HackCommit(wt[s].head) <= MaxCommit
    /\ \E r \in {TryPushCreate(s, check_open, is_open, hacks, entry, status,
                              output, bridge_ok)} :
           /\ pushes' = r.pushes
           /\ seq' = r.seq
           /\ tryIdx' = r.tryIdx
           /\ wt' = [wt EXCEPT ![s] = r.w]
           /\ comments' = r.comments
           /\ last' = [op |-> "create", name |-> r.name,
                       arg |-> [check_open |-> check_open, is_open |-> is_open,
                                hacks |-> hacks, entry |-> entry,
                                status |-> IF r.ran THEN status ELSE -1,
                                rev |-> RevSearch(output)],
                       err |-> r.err,
                       pre |-> [head |-> wt[s].head, inscope |-> r.inscope],
                       out |-> <<>>]
    /\ UNCHANGED <<tgIdx, others>>

SetStatus(p, value) ==
    /\ p \in DOMAIN pushes
    /\ LET r == status_set(pushes[p], value)
       IN  /\ pushes' = [pushes EXCEPT ![p] = r.rec]
           /\ last' = [op |-> "status", name |-> p, arg |-> value, err |-> r.err,
                       pre |-> pushes[p].status, out |-> <<>>]
    /\ UNCHANGED <<seq, tryIdx, tgIdx, wt, comments, others>>

GetInfraFail(p, failed) ==
    /\ p \in DOMAIN pushes
    /\ Len(comments) < MaxComments
    /\ LET r == infra_fail_get(pushes[p], failed)
       IN  /\ pushes' = [pushes EXCEPT ![p] = r.rec]
           /\ comments' = comments \o r.posts
           /\ last' = [op |-> "infra_fail_get", name |-> p, arg |-> failed,
                       err |-> r.err, pre |-> pushes[p], out |-> r.out]
    /\ UNCHANGED <<seq, tryIdx, tgIdx, wt, others>>

SetInfraFail(p, value, failed) ==
    /\ p \in DOMAIN pushes
    /\ Len(comments) < MaxComments
    /\ LET r == infra_fail_set(pushes[p], value, failed)
       IN  /\ pushes' = [pushes EXCEPT ![p] = r.rec]
           /\ comments' = comments \o r.posts
           /\ last' = [op |-> "infra_fail_set", name |-> p, arg |-> value,
                       err |-> r.err, pre |-> pushes[p], out |-> failed]
    /\ UNCHANGED <<seq, tryIdx, tgIdx, wt, others>>

SetTryRev(p, value) ==
    /\ p \in DOMAIN pushes
    /\ LET r == try_rev_set(pushes[p], tryIdx, p, value)
       IN  /\ pushes' = [pushes EXCEPT ![p] = r.rec]
           /\ tryIdx' = r.idx
           /\ last' = [op |-> "try_rev", name |-> p, arg |-> value, err |-> r.err,
                       pre |-> pushes[p].try_rev, out |-> <<>>]
    /\ UNCHANGED <<seq, tgIdx, wt, comments, others>>

SetTaskgroupId(p, value) ==
    /\ p \in DOMAIN pushes
    /\ LET r == taskgroup_id_set(pushes[p], tgIdx, p, value)
       IN  /\ pushes' = [pushes EXCEPT ![p] = r.rec]
           /\ tgIdx' = r.idx
           /\ last' = [op |-> "taskgroup_id", name |-> p, arg |-> value,
                       err |-> r.err, pre |-> pushes[p].taskgroup_id, out |-> <<>>]
    /\ UNCHANGED <<seq, tryIdx, wt, comments, others>>

\* TryPush.tasks: the id normalisation (the task list itself is the cluster's)
Tasks(p) ==
    /\ p \in DOMAIN pushes
    /\ LET task_id == normalize_task_id(pushes[p].taskgroup_id)
           r == IF task_id # pushes[p].taskgroup_id
                THEN taskgroup_id_set(pushes[p], tgIdx, p, task_id)
                ELSE [err |-> "none", rec |-> pushes[p], idx |-> tgIdx]
       IN  /\ pushes' = [pushes EXCEPT ![p] = r.rec]
           /\ tgIdx' = r.idx
           /\ last' = [op |-> "tasks", name |-> p, arg |-> <<>>, err |-> r.err,
                       pre |-> pushes[p].taskgroup_id, out |-> <<>>]
    /\ UNCHANGED <<seq, tryIdx, wt, comments, others>>

DownloadLogs(p, wpt_tasks, first_only) ==
    /\ p \in DOMAIN pushes
    /\ \E r \in {download_logs(pushes[p], tryIdx, p, wpt_tasks, first_only)} :
           /\ pushes' = [pushes EXCEPT ![p] = r.rec]
           /\ tryIdx' = r.idx
           /\ last' = [op |-> "download_logs", name |-> p,
                       arg |-> [wpt_tasks |-> wpt_tasks, first_only |-> first_only],
                       err |-> r.err, pre |-> pushes[p].try_rev, out |-> r.out]
    /\ UNCHANGED <<seq, tgIdx, wt, comments, others>>

\* TryPush.delete
Delete(p) ==
    /\ p \in DOMAIN pushes
    /\ pushes' = [n \in DOMAIN pushes \ {p} |-> pushes[n]]
    /\ tgIdx' = IF pushes[p].taskgroup_id # None
                THEN IdxDelete(tgIdx, MakeKey(pushes[p].taskgroup_id),
                               DataValue(pushes[p].taskgroup_id))
                ELSE tgIdx
    /\ tryIdx' = IF pushes[p].try_rev # None
                 THEN IdxDelete(tryIdx, MakeKey(pushes[p].try_rev),
                                DataValue(pushes[p].try_rev))
                 ELSE tryIdx
    /\ last' = [op |-> "delete", name |-> p, arg |-> <<>>, err |-> "none",
                pre |-> pushes[p], out |-> <<>>]
    /\ UNCHANGED <<seq, wt, comments, others>>

Entries == {"ok", "apply_hacks", "commit", "post_commit"}
FailedBuilds == {<<>>, <<1>>}

\* What create() is given and what its surroundings answer:
\* <<check_open, is_open, hacks, entry, status, output, bridge_ok>>.
\* Values that the code never reads in a case are held at one value there:
\* entry without hacks, the output of a failed tool, the bridge when the
\* output holds a revision.
ToolRuns ==
    {<<1, o, TRUE>> : o \in {[i \in 1..2 |-> None], [i \in 1..2 |-> IF i = 1 THEN 1 ELSE None]}}
    \cup {<<0, o, b>> : o \in Outputs, b \in BOOLEAN}
Scopes == {<<FALSE, "ok">>} \cup {<<TRUE, e>> : e \in Entries}
CreateInputs ==
    {<<c[1], c[2], h[1], h[2], t[1], t[2], t[3]>> :
        c \in BOOLEAN \X BOOLEAN, h \in Scopes,
        t \in {x \in ToolRuns : x[1] # 0 \/ RevSearch(x[2]) = None \/ x[3]}}
\* the inputs with which create() gets as far as the push and the tool works
PushedInputs ==
    {i \in CreateInputs : i[1] /\ i[2] /\ i[4] = "ok" /\ i[5] = 0}

\* the inputs with which the scope is entered (no error on entry)
EnteredInputs == {i \in CreateInputs : i[4] = "ok"}
\* one input: an open tree, no hacks, a tool that prints no revision and a HEAD
\* the bridge cannot translate (the Try-Push is made with a null try-rev)
PlainInputs ==
    {i \in PushedInputs : ~i[3] /\ RevSearch(i[6]) = None /\ ~i[7]}

DoCreateWith(inputs) ==
    \E s \in Syncs, i \in inputs :
        Create(s, i[1], i[2], i[3], i[4], i[5], i[6], i[7])
DoCreate == DoCreateWith(CreateInputs)
DoSetStatus == \E p \in Names, value \in statuses \cup {"bogus"} : SetStatus(p, value)
DoGetInfraFailWith(builds) ==
    \E p \in Names, failed \in builds : GetInfraFail(p, failed)
DoGetInfraFail == DoGetInfraFailWith(FailedBuilds)
DoSetInfraFailWith(builds) ==
    \E p \in Names, value \in {"true", "false"}, failed \in builds :
        SetInfraFail(p, value, failed)
DoSetInfraFail == DoSetInfraFailWith(FailedBuilds)
DoSetTryRev == \E p \in Names, value \in Revs \cup {None} : SetTryRev(p, value)
DoSetTaskgroupId ==
    \E p \in Names, value \in TaskIds \cup {None} : SetTaskgroupId(p, value)
DoTasks == \E p \in Names : Tasks(p)
DoDelete == \E p \in Names : Delete(p)

\* a task: its name, its state and the GECKO_HEAD_REV of its environment
TaskRecs == [name : {1, 2}, state : {SUCCESS, FAIL}, rev : {None} \cup Revs]
\* download_logs on at most one task: what the try-rev backfill reads
DoBackfill ==
    \E p \in Names, wpt_tasks \in {<<>>} \cup {<<t>> : t \in {x \in TaskRecs : x.name = 1}},
       first_only \in {FALSE} :
        DownloadLogs(p, wpt_tasks, first_only)

\* the tasks of a task group as download_logs reads them: some without a name
LogTasks == [name : {None, 1, 2}, state : {SUCCESS, FAIL, "exception"}, rev : {None}]
LogTaskLists == UNION {[1..n -> LogTasks] : n \in 0..MaxTasks}

\* the Try-Push whose logs are asked for, with its try-rev
LogPush == <<2, 1>>
LogRev == 1

DoDownloadLogs ==
    /\ last.op = "given"
    /\ DownloadLogs(last.arg.p, last.arg.wpt_tasks, last.arg.first_only)

----------------------------------------------------------------------------
(* TryPush.create statement by statement, run by several workers.  The pc of *)
(* a call names the statement it runs next.                                  *)

lock_key_percall(s, w) == <<s, w>>

\* the key create() is locked on: (sync.process_name.subtype, obj_id)
lock_key(s, w) == <<s>>

\* lock.constructor: the lock of a key is held by at most one call
lock_free(key) == \A l \in lock : l.key # key

after_comment_first(pc) ==
    CASE pc = "push" -> "name"
      [] pc = "name" -> "persist"
      [] pc = "persist" -> "comment"
      [] pc = "comment" -> "insert"
      [] pc = "insert" -> "return"
      [] pc = "rev_delete" -> "rev_assign"
      [] pc = "rev_assign" -> "rev_insert"
      [] pc = "rev_insert" -> "return"
      [] pc = "tg_assign" -> "tg_insert"
      [] pc = "tg_insert" -> "return"
      [] pc = "del_record" -> "del_taskgroup"
      [] pc = "del_taskgroup" -> "del_try_commit"
      [] pc = "del_try_commit" -> "return"

\* the statement that follows statement pc: of create(), of the try_rev and
\* taskgroup_id setters, of delete()
after(pc) ==
    CASE pc = "push" -> "name"
      [] pc = "name" -> "persist"
      [] pc = "persist" -> "insert"
      [] pc = "insert" -> "comment"
      [] pc = "comment" -> "return"
      [] pc = "rev_delete" -> "rev_assign"
      [] pc = "rev_assign" -> "rev_insert"
      [] pc = "rev_insert" -> "return"
      [] pc = "tg_assign" -> "tg_insert"
      [] pc = "tg_insert" -> "return"
      [] pc = "del_record" -> "del_taskgroup"
      [] pc = "del_taskgroup" -> "del_try_commit"
      [] pc = "del_try_commit" -> "return"

InFlight == Cardinality({w \in Workers : calls[w].pc # "idle"})

\* the call of worker w goes on as c, or ends: by the error err, or by return
Advance(w, c, err) ==
    IF err # "none" \/ after(calls[w].pc) = "return"
    THEN /\ calls' = [calls EXCEPT ![w] = IdleCall]
         /\ lock' = {l \in lock : l.by # w}
         /\ last' = [op |-> c.op, name |-> c.name,
                     arg |-> [rev |-> c.try_rev], err |-> err,
                     pre |-> <<>>, out |-> [posted |-> c.posted]]
    ELSE /\ calls' = [calls EXCEPT ![w] = [c EXCEPT !.pc = after(calls[w].pc)]]
         /\ UNCHANGED <<lock, last>>

\* the call is made: the constructor takes the lock of the Sync's pair
Begin(w, s) ==
    /\ calls[w].pc = "idle"
    /\ lock_free(lock_key(s, w))
    /\ Len(made) + InFlight < MaxPushes
    /\ lock' = lock \cup {[key |-> lock_key(s, w), by |-> w]}
    /\ calls' = [calls EXCEPT ![w] = [IdleCall EXCEPT !.pc = "push", !.s = s,
                                                      !.op = "create"]]
    /\ UNCHANGED <<pushes, seq, tryIdx, tgIdx, wt, comments, last, made, session>>

\* lines 198-215: the tree check and the push within the Try-Commit scope
PushStep(w, check_open, is_open, hacks, entry, status, output, bridge_ok) ==
    /\ calls[w].pc = "push"
    /\ hacks => HackCommit(wt[calls[w].s].head) <= MaxCommit
    /\ LET s == calls[w].s
           en == TryCommitEnter(hacks, wt[s], entry)
           w1 == [en.w EXCEPT !.dirty = FALSE]
           rt == read_treeherder(status, output, w1.head, bridge_ok)
       IN  IF check_open /\ ~is_open
           THEN /\ Advance(w, calls[w], "RetryableError")
                /\ UNCHANGED wt
           ELSE IF en.err # "none"
                THEN /\ Advance(w, calls[w], en.err)
                     /\ wt' = [wt EXCEPT ![s] = en.w]
                ELSE /\ Advance(w, [calls[w] EXCEPT !.try_rev = rt.rev], rt.err)
                     /\ wt' = [wt EXCEPT ![s] = cleanup(en.reset, w1)]
    /\ UNCHANGED <<pushes, seq, tryIdx, tgIdx, comments, made, session>>

\* lines 225-228: the process name with the next sequence id
AllocName(w) ==
    /\ calls[w].pc = "name"
    /\ Advance(w, [calls[w] EXCEPT !.name = with_seq_id(calls[w].s)], "none")
    /\ UNCHANGED <<pushes, seq, tryIdx, tgIdx, wt, comments, made, session>>

\* line 229: the record is persisted
Persist(w) ==
    /\ calls[w].pc = "persist"
    /\ pushes' = AddPush(pushes, calls[w].name, NewData(calls[w].s, calls[w].try_rev))
    /\ seq' = [seq EXCEPT ![calls[w].s] = calls[w].name[2] + 1]
    /\ made' = Append(made, calls[w].name)
    /\ Advance(w, calls[w], "none")
    /\ UNCHANGED <<tryIdx, tgIdx, wt, comments, session>>

\* lines 231-232: the index insert
Insert(w) ==
    /\ calls[w].pc = "insert"
    /\ LET ins == IF calls[w].try_rev # None
                  THEN IdxInsert(tryIdx, MakeKey(calls[w].try_rev), calls[w].name)
                  ELSE [err |-> "none", idx |-> tryIdx]
       IN  /\ tryIdx' = ins.idx
           /\ Advance(w, calls[w], ins.err)
    /\ UNCHANGED <<pushes, seq, tgIdx, wt, comments, made, session>>

\* lines 237-240: the comment on the Sync's bug
Comment(w) ==
    /\ calls[w].pc = "comment"
    /\ comments' = Append(comments,
                          [bug |-> SyncBug(calls[w].s), kind |-> "try",
                           rev |-> calls[w].try_rev, builds |-> <<>>])
    /\ Advance(w, [calls[w] EXCEPT !.posted = @ + 1], "none")
    /\ UNCHANGED <<pushes, seq, tryIdx, tgIdx, wt, made, session>>

\* the inputs of a create() that builds no hack commit
StepInputs == {i \in EnteredInputs : ~i[3]}

DoBegin == \E w \in Workers, s \in Syncs : Begin(w, s)
DoPushStep ==
    \E w \in Workers, i \in StepInputs :
        PushStep(w, i[1], i[2], i[3], i[4], i[5], i[6], i[7])
DoAllocName == \E w \in Workers : AllocName(w)
DoPersist == \E w \in Workers : Persist(w)
DoInsert == \E w \in Workers : Insert(w)
DoComment == \E w \in Workers : Comment(w)

\* create() calls of several workers, interleaved statement by statement
NextSteps ==
    \/ DoBegin
    \/ DoPushStep
    \/ DoAllocName
    \/ DoPersist
    \/ DoInsert
    \/ DoComment
SpecSteps == Init /\ [][NextSteps]_vars

\* a method of the Try-Push p is called: as every @mut() method it runs under
\* the lock of the Sync's pair
BeginMethod(w, p, op, pc, value) ==
    /\ calls[w].pc = "idle"
    /\ p \in DOMAIN pushes
    /\ lock_free(lock_key(p[1], w))
    /\ lock' = lock \cup {[key |-> lock_key(p[1], w), by |-> w]}
    /\ calls' = [calls EXCEPT ![w] = [IdleCall EXCEPT !.pc = pc, !.s = p[1],
                                                      !.name = p, !.op = op,
                                                      !.value = value]]
    /\ UNCHANGED <<pushes, seq, tryIdx, tgIdx, wt, comments, last, made, session>>

BeginTryRev(w, p, value) == BeginMethod(w, p, "try_rev", "rev_delete", value)
BeginTaskgroupId(w, p, value) ==
    BeginMethod(w, p, "taskgroup_id", "tg_assign", value)
BeginDelete(w, p) == BeginMethod(w, p, "delete", "del_record", None)

\* lines 291-293: the entry of the old revision is deleted
RevDelete(w) ==
    /\ calls[w].pc = "rev_delete"
    /\ LET p == calls[w].name
       IN  tryIdx' = IF pushes[p].try_rev # None
                     THEN IdxDelete(tryIdx, MakeKey(pushes[p].try_rev), p)
                     ELSE tryIdx
    /\ Advance(w, calls[w], "none")
    /\ UNCHANGED <<pushes, seq, tgIdx, wt, comments, made, session>>

\* line 294: the record takes the new revision
RevAssign(w) ==
    /\ calls[w].pc = "rev_assign"
    /\ pushes' = [pushes EXCEPT ![calls[w].name].try_rev = calls[w].value]
    /\ Advance(w, calls[w], "none")
    /\ UNCHANGED <<seq, tryIdx, tgIdx, wt, comments, made, session>>

\* line 295: the entry of the new revision is inserted
RevInsert(w) ==
    /\ calls[w].pc = "rev_insert"
    /\ LET ins == IF calls[w].value = None
                  THEN [err |-> "TypeError", idx |-> tryIdx]
                  ELSE IdxInsert(tryIdx, MakeKey(calls[w].value), calls[w].name)
       IN  /\ tryIdx' = ins.idx
           /\ Advance(w, calls[w], ins.err)
    /\ UNCHANGED <<pushes, seq, tgIdx, wt, comments, made, session>>

\* line 304: the record takes the task-group id
TgAssign(w) ==
    /\ calls[w].pc = "tg_assign"
    /\ pushes' = [pushes EXCEPT ![calls[w].name].taskgroup_id = calls[w].value]
    /\ Advance(w, calls[w], "none")
    /\ UNCHANGED <<seq, tryIdx, tgIdx, wt, comments, made, session>>

\* lines 305-307: the entry of the task-group id is inserted
TgInsert(w) ==
    /\ calls[w].pc = "tg_insert"
    /\ LET ins == IF calls[w].value # None
                  THEN IdxInsert(tgIdx, MakeKey(calls[w].value), calls[w].name)
                  ELSE [err |-> "none", idx |-> tgIdx]
       IN  /\ tgIdx' = ins.idx
           /\ Advance(w, calls[w], ins.err)
    /\ UNCHANGED <<pushes, seq, tryIdx, wt, comments, made, session>>

\* line 473: the record is removed; the object keeps the data it had loaded
DelRecord(w) ==
    /\ calls[w].pc = "del_record"
    /\ LET p == calls[w].name
       IN  /\ pushes' = [n \in DOMAIN pushes \ {p} |-> pushes[n]]
           /\ Advance(w, [calls[w] EXCEPT !.value = pushes[p].taskgroup_id,
                                          !.try_rev = pushes[p].try_rev], "none")
    /\ UNCHANGED <<seq, tryIdx, tgIdx, wt, comments, made, session>>

\* lines 474-479, first pair: TaskGroupIndex
DelTaskgroup(w) ==
    /\ calls[w].pc = "del_taskgroup"
    /\ tgIdx' = IF calls[w].value # None
                THEN IdxDelete(tgIdx, MakeKey(calls[w].value),
                               DataValue(calls[w].value))
                ELSE tgIdx
    /\ Advance(w, calls[w], "none")
    /\ UNCHANGED <<pushes, seq, tryIdx, wt, comments, made, session>>

\* lines 474-479, second pair: TryCommitIndex
DelTryCommit(w) ==
    /\ calls[w].pc = "del_try_commit"
    /\ tryIdx' = IF calls[w].try_rev # None
                 THEN IdxDelete(tryIdx, MakeKey(calls[w].try_rev),
                                DataValue(calls[w].try_rev))
                 ELSE tryIdx
    /\ Advance(w, calls[w], "none")
    /\ UNCHANGED <<pushes, seq, tgIdx, wt, comments, made, session>>

\* the process of worker w dies between two statements of its call: the
\* call goes no further and its lock is given up
Crash(w) ==
    /\ calls[w].pc # "idle"
    /\ calls' = [calls EXCEPT ![w] = IdleCall]
    /\ lock' = {l \in lock : l.by # w}
    /\ last' = [op |-> "crash", name |-> calls[w].name,
                arg |-> [rev |-> calls[w].try_rev], err |-> calls[w].op,
                pre |-> <<>>, out |-> [posted |-> calls[w].posted]]
    /\ UNCHANGED <<pushes, seq, tryIdx, tgIdx, wt, comments, made, session>>

\* the inputs of a create() whose push is read back
CrashInputs ==
    {i \in StepInputs : ~i[1] /\ i[2] /\ i[4] = "ok" /\ i[5] = 0 /\ i[7]
                        /\ RevSearch(i[6]) # None}

\* one process at a time makes the calls that may crash
Crasher == 1

\* create(), the two setters and delete(), statement by statement, with a
\* crash possible between any two statements
NextCrash ==
    \/ \E s \in Syncs : Begin(Crasher, s)
    \/ \E i \in CrashInputs :
           PushStep(Crasher, i[1], i[2], i[3], i[4], i[5], i[6], i[7])
    \/ AllocName(Crasher)
    \/ Persist(Crasher)
    \/ Insert(Crasher)
    \/ Comment(Crasher)
    \/ \E p \in DOMAIN pushes, value \in Revs \cup {None} :
           BeginTryRev(Crasher, p, value)
    \/ \E p \in DOMAIN pushes, value \in CanonIds \cup {None} :
           BeginTaskgroupId(Crasher, p, value)
    \/ \E p \in DOMAIN pushes : BeginDelete(Crasher, p)
    \/ RevDelete(Crasher)
    \/ RevAssign(Crasher)
    \/ RevInsert(Crasher)
    \/ TgAssign(Crasher)
    \/ TgInsert(Crasher)
    \/ DelRecord(Crasher)
    \/ DelTaskgroup(Crasher)
    \/ DelTryCommit(Crasher)
    \/ Crash(Crasher)
SpecCrash == Init /\ [][NextCrash]_vars

----------------------------------------------------------------------------
(* Event handlers (sync/handlers.py).  A handler returns the error it raises  *)
(* ("none" when it returns), the Sync table it leaves and the trace of the    *)
(* calls it made, each [call, pr].                                            *)

PRs == {1, 2}
Shas == {1, 2}

Call(c, pr) == [call |-> c, pr |-> pr]

get_sync_unfiltered(sess, pr_id) ==
    IF DOMAIN sess.sync # {}
    THEN sess.sync[CHOOSE n \in DOMAIN sess.sync : \A m \in DOMAIN sess.sync : n <= m]
    ELSE ""

\* get_sync: the direction of the Sync of a PR, "" when there is none
get_sync(sess, pr_id) ==
    IF pr_id \in DOMAIN sess.sync THEN sess.sync[pr_id] ELSE ""

\* downstream.new_wpt_pr: records a downstream Sync for the PR and returns it
new_wpt_pr(sess, pr, fail) ==
    IF fail = "new_wpt_pr"
    THEN [err |-> "Error", session |-> sess]
    ELSE [err |-> "none",
          session |-> [sess EXCEPT !.sync =
                          [n \in DOMAIN sess.sync \cup {pr} |->
                              IF n = pr THEN "downstream" ELSE sess.sync[n]]]]

\* upstream.status_changed / downstream.status_changed: what a call of one ends by
status_changed(fail) == IF fail = "status_changed" THEN "Error" ELSE "none"

\* log_exceptions(f), applied to the outcome r of f: an exception is logged at
\* CRITICAL level and raised again.  No handler of the module is wrapped by it.
log_exceptions(r) ==
    IF r.err # "none"
    THEN [r EXCEPT !.trace = Append(@, Call("logger.critical", None))]
    ELSE r

\* handle_pr.  event.payload is the PR that event["payload"] describes, None when
\* the event has no such key (the documented events have action, number and
\* pull_request only)
handle_pr(sess, event, fail) ==
    LET pr_id == event.number
        sync == get_sync(sess, pr_id)
        sess1 == [sess EXCEPT !.pulls = @ \cup {pr_id}]
        t1 == <<Call("gh_wpt.load_pull", pr_id),
                Call("PullRequest.update_from_github", pr_id)>>
    IN  IF sync = ""
        THEN IF event.action = "opened"
             THEN IF event.payload = None
                  THEN [err |-> "KeyError", session |-> sess1, trace |-> t1]
                  ELSE LET nw == new_wpt_pr(sess1, event.payload, fail)
                       IN  [err |-> nw.err, session |-> nw.session,
                            trace |-> Append(t1, Call("downstream.new_wpt_pr",
                                                      event.payload))]
             ELSE [err |-> "none", session |-> sess1, trace |-> t1]
        ELSE [err |-> "none", session |-> sess1, trace |-> t1]

\* pr_for_commit: the PR whose head ref is rev, after the fetch of the PR refs
pr_for_commit(pr_refs, rev) ==
    IF rev \in DOMAIN pr_refs THEN pr_refs[rev] ELSE None

\* handle_status from line 90 on: a status of another context
route_status(sess, event, pr_refs, is_anc, fail) ==
    LET pr_id == pr_for_commit(pr_refs, event.sha)
        t1 == <<Call("git_wpt.fetch", None)>>
    IN  IF pr_id = None
        THEN [err |-> "none", session |-> sess,
              trace |-> IF is_anc THEN t1 ELSE Append(t1, Call("logger.error", None))]
        ELSE
        LET known == get_sync(sess, pr_id) # ""
            nw == IF known THEN [err |-> "none", session |-> sess]
                  ELSE new_wpt_pr(sess, pr_id, fail)
            t2 == IF known THEN t1
                  ELSE t1 \o <<Call("gh_wpt.get_pull", pr_id),
                               Call("downstream.new_wpt_pr", pr_id)>>
        IN  IF nw.err # "none"
            THEN [err |-> nw.err, session |-> nw.session, trace |-> t2]
            ELSE IF get_sync(nw.session, pr_id) = "upstream"
                 THEN [err |-> status_changed(fail), session |-> nw.session,
                       trace |-> Append(t2, Call("upstream.status_changed", pr_id))]
                 ELSE IF get_sync(nw.session, pr_id) = "downstream"
                      THEN [err |-> status_changed(fail), session |-> nw.session,
                            trace |-> Append(t2, Call("downstream.status_changed",
                                                      pr_id))]
                      ELSE [err |-> "none", session |-> nw.session, trace |-> t2]

handle_status_nofilter(sess, event, pr_refs, is_anc, fail) ==
    route_status(sess, event, pr_refs, is_anc, fail)

\* handle_status
handle_status(sess, event, pr_refs, is_anc, fail) ==
    IF event.context = "upstream/gecko"
    THEN [err |-> "none", session |-> sess, trace |-> <<>>]
    ELSE route_status(sess, event, pr_refs, is_anc, fail)

\* handle_push
handle_push(sess, event) ==
    [err |-> "none", session |-> sess, trace |-> <<Call("push.wpt_push", None)>>]

\* GitHubHandler.dispatch_event: the event kinds that have a handler
dispatch_event == {"pull_request", "status", "push"}

\* GitHubHandler.__call__
GitHubHandler_call(sess, body, pr_refs, is_anc, fail) ==
    IF body.event \notin dispatch_event
    THEN [err |-> "KeyError", session |-> sess, trace |-> <<>>]
    ELSE IF body.event = "pull_request"
         THEN handle_pr(sess, body.payload, fail)
         ELSE IF body.event = "status"
              THEN handle_status(sess, body.payload, pr_refs, is_anc, fail)
              ELSE handle_push(sess, body.payload)

\* one event is delivered to the GitHub handler
GitHubEvent(body, pr_refs, is_anc, fail) ==
    /\ \E r \in {GitHubHandler_call(session, body, pr_refs, is_anc, fail)} :
           /\ session' = r.session
           /\ last' = [op |-> "github", name |-> NoName,
                       arg |-> [body |-> body, pr_refs |-> pr_refs,
                                is_anc |-> is_anc, fail |-> fail],
                       err |-> r.err, pre |-> session, out |-> r.trace]
    /\ UNCHANGED <<pushes, seq, tryIdx, tgIdx, wt, comments, lock, calls, made>>

\* a Sync made by the upstream side for a PR it opened itself
UpstreamSync(pr) ==
    /\ pr \notin DOMAIN session.sync
    /\ session' = [session EXCEPT !.sync =
                      [n \in DOMAIN session.sync \cup {pr} |->
                          IF n = pr THEN "upstream" ELSE session.sync[n]]]
    /\ last' = [op |-> "upstream_sync", name |-> NoName, arg |-> pr, err |-> "none",
                pre |-> session, out |-> <<>>]
    /\ UNCHANGED <<pushes, seq, tryIdx, tgIdx, wt, comments, lock, calls, made>>

\* the bodies delivered: pull_request, status and push events, and one event
\* kind that has no handler
PrBodies ==
    {[event |-> "pull_request",
      payload |-> [action |-> a, number |-> n, payload |-> x]] :
        a \in {"opened", "closed"}, n \in PRs, x \in {None} \cup PRs}
StatusBodies ==
    {[event |-> "status",
      payload |-> [context |-> c, sha |-> r, status |-> st, url |-> 1]] :
        c \in {"upstream/gecko", "continuous-integration/travis-ci/pr"},
        r \in Shas, st \in {"pending", "success"}}
OtherBodies ==
    {[event |-> "push", payload |-> [commits |-> <<1>>]],
     [event |-> "issue_comment", payload |-> [action |-> "created"]]}
Bodies == PrBodies \cup StatusBodies \cup OtherBodies

\* the PR head refs a fetch can find: each sha the head of at most one PR
PrRefs == UNION {[D -> PRs] : D \in SUBSET Shas}

Fails == {"none", "new_wpt_pr", "status_changed"}

\* What the handler is given and what its surroundings answer:
\* <<body, pr_refs, is_anc, fail>>.  Values the code never reads in a case are
\* held at one value there: the PR refs and the ancestry outside a status of
\* another context, the ancestry of a PR head, a failing call that is not made.
GitHubInputs ==
    {<<b, <<>>, TRUE, f>> : b \in PrBodies, f \in {"none", "new_wpt_pr"}}
    \cup {<<b, <<>>, TRUE, "none">> : b \in OtherBodies}
    \cup {i \in StatusBodies \X PrRefs \X BOOLEAN \X Fails :
             IF i[1].payload.context = "upstream/gecko"
             THEN i[3] /\ i[4] = "none"
             ELSE IF i[1].payload.sha \in DOMAIN i[2]
                  THEN i[3]
                  ELSE i[4] = "none"}

DoGitHubEvent ==
    \E i \in GitHubInputs : GitHubEvent(i[1], i[2], i[3], i[4])
DoUpstreamSync == \E pr \in PRs : UpstreamSync(pr)

NextGitHub == DoGitHubEvent \/ DoUpstreamSync
SpecGitHub == Init /\ [][NextGitHub]_vars

----------------------------------------------------------------------------
(* PushHandler (sync/handlers.py): pushes to the gecko repositories *)

\* a URL: its scheme and the rest of it (host, path, ...)
Hosts == {1, 2}
Urls == [scheme : {"http", "https"}, rest : Hosts]
RepoNames == {"autoland", "mozilla-inbound"}
\* config["sync"]: the integration repos by name, and the landing repo
Configs == [integration : [RepoNames -> Urls], landing : Urls]
\* the orders in which iteritems() can hand out the integration repos
Orders == {o \in [1..Cardinality(RepoNames) -> RepoNames] :
              \A i, j \in DOMAIN o : i # j => o[i] # o[j]}

urlnormalize_keep(url) == url

\* urlunparse(("https",) + url_parts[1:])
urlnormalize(url) == [url EXCEPT !.scheme = "https"]

RECURSIVE integration_repos_from(_, _, _, _)
\* the loop of __init__ from position i of the iteration: a later repo takes the
\* place of an earlier one with the same normalized URL
integration_repos_from(config, order, i, repos) ==
    IF i > Len(order)
    THEN repos
    ELSE LET url == urlnormalize(config.integration[order[i]])
         IN  integration_repos_from(config, order, i + 1,
                 [u \in DOMAIN repos \cup {url} |->
                     IF u = url THEN order[i] ELSE repos[u]])

\* PushHandler.__init__
PushHandler_init(config, order) ==
    [integration_repos |-> integration_repos_from(config, order, 1, <<>>),
     landing_repo |-> config.landing]

\* PushHandler.__call__: the commit handlers it calls
PushHandler_call(self, repo_url, heads) ==
    LET rev == heads[1]
    IN  IF repo_url \in DOMAIN self.integration_repos \/ repo_url = self.landing_repo
        THEN IF repo_url \in DOMAIN self.integration_repos
             THEN <<[call |-> "upstream.integration_commit",
                     repo |-> self.integration_repos[repo_url], rev |-> rev]>>
             ELSE IF repo_url = self.landing_repo
                  THEN <<[call |-> "upstream.landing_commit", repo |-> "",
                          rev |-> rev]>>
                  ELSE <<>>
        ELSE <<>>

\* one push event is delivered to a PushHandler made from config
PushEvent(config, order, repo_url, heads) ==
    /\ last' = [op |-> "push", name |-> NoName,
                arg |-> [config |-> config, order |-> order, repo_url |-> repo_url,
                         heads |-> heads],
                err |-> "none", pre |-> <<>>,
                out |-> PushHandler_call(PushHandler_init(config, order),
                                         repo_url, heads)]
    /\ UNCHANGED <<pushes, seq, tryIdx, tgIdx, wt, comments, lock, calls, made,
                   session>>

DoPushEvent ==
    \E config \in Configs, order \in Orders, repo_url \in Urls,
       heads \in {<<1>>, <<2, 1>>} :
        PushEvent(config, order, repo_url, heads)

NextPush == DoPushEvent
SpecPush == Init /\ [][NextPush]_vars

----------------------------------------------------------------------------
(* TryFuzzyCommit._push: the arguments handed to mach try.  Every argument   *)
(* is a string.                                                              *)

TestPaths == {"a.html", "b.html", "c.html"}
\* the lists of tests of one test type
PathLists == UNION {[1..n -> TestPaths] : n \in 0..MaxTests}
\* tests_by_type: None, or the lists of its types in the order itervalues()
\* hands them out
TestsByType ==
    {[none |-> TRUE, values |-> <<>>]}
    \cup {[none |-> FALSE, values |-> v] : v \in UNION {[1..n -> PathLists] : n \in 0..2}}

\* str(n) of a rebuild count
str(n) == <<"0", "1", "2", "3", "4", "5">>[n + 1]

RECURSIVE query_args_from(_, _)
\* lines 134-136: -q <query> for every query from position i on
query_args_from(queries, i) ==
    IF i > Len(queries)
    THEN <<>>
    ELSE <<"-q", queries[i]>> \o query_args_from(queries, i + 1)

RECURSIVE paths_from(_, _, _, _, _, _)
\* lines 159-165: the loops over the types (t) and their items (i); paths and
\* all_paths are the values of those variables so far
paths_from(values, t, i, paths, all_paths, exists) ==
    IF t > Len(values)
    THEN paths
    ELSE IF i > Len(values[t])
         THEN paths_from(values, t + 1, 1, paths, all_paths, exists)
         ELSE LET item == values[t][i]
              IN  paths_from(values, t, i + 1,
                             IF item \notin all_paths /\ item \in exists
                             THEN Append(paths, item)
                             ELSE paths,
                             all_paths \cup {item}, exists)

cap_paths_last(paths, max_tests) ==
    IF max_tests # None /\ Len(paths) > max_tests
    THEN SubSeq(paths, Len(paths) - max_tests + 1, Len(paths))
    ELSE paths

\* lines 166-169: the cap of config max-tests (None when it is not set)
cap_paths(paths, max_tests) ==
    IF max_tests # None /\ Len(paths) > max_tests
    THEN SubSeq(paths, 1, max_tests)
    ELSE paths

\* lines 134-170: the args of mach.try_.  self holds the attributes of the
\* TryFuzzyCommit, exists the paths that exist in the worktree
push_args(self, can_push_routes, exists, max_tests) ==
    <<"fuzzy">> \o query_args_from(self.queries, 1)
        \o (IF self.rebuild # 0 THEN <<"--rebuild", str(self.rebuild)>> ELSE <<>>)
        \o (IF self.full THEN <<"--full">> ELSE <<>>)
        \o (IF self.disable_target_task_filter
            THEN <<"--disable-target-task-filter">> ELSE <<>>)
        \o (IF can_push_routes
            THEN <<"--route=notify.pulse.wptsync.try-task.on-any">> ELSE <<>>)
        \o (IF self.artifact THEN <<"--artifact">> ELSE <<"--no-artifact">>)
        \o (IF ~self.tests_by_type.none
            THEN cap_paths(paths_from(self.tests_by_type.values, 1, 1, <<>>, {},
                                      exists),
                           max_tests)
            ELSE <<>>)

\* _push builds its arguments
PushArgs(self, can_push_routes, exists, max_tests) ==
    /\ last.op = "given"
    /\ last' = [op |-> "_push", name |-> NoName,
                arg |-> [self |-> self, can_push_routes |-> can_push_routes,
                         exists |-> exists, max_tests |-> max_tests],
                err |-> "none", pre |-> <<>>,
                out |-> push_args(self, can_push_routes, exists, max_tests)]
    /\ UNCHANGED <<pushes, seq, tryIdx, tgIdx, wt, comments, lock, calls, made,
                   session>>

\* the attributes of a TryFuzzyCommit but its tests
FuzzyFlags ==
    [queries : {<<>>, <<"wpt !asan">>, <<"wpt !mac", "wpt !asan">>},
     rebuild : {0, 1, 5}, full : BOOLEAN, disable_target_task_filter : BOOLEAN,
     artifact : BOOLEAN]
WithTests(f, tests) ==
    [queries |-> f.queries, rebuild |-> f.rebuild, full |-> f.full,
     disable_target_task_filter |-> f.disable_target_task_filter,
     artifact |-> f.artifact, tests_by_type |-> tests]
\* the stability push of create(): rebuild 5, the default query, artifact builds
StabilityFlags ==
    {f \in FuzzyFlags : /\ f.rebuild = 5 /\ Len(f.queries) = 1
                        /\ ~f.full /\ ~f.disable_target_task_filter /\ f.artifact}
\* <<self, can_push_routes, exists, max_tests>>: every choice of the flags with
\* two choices of tests, and every choice of the tests with the stability flags
ArgsInputs ==
    {<<WithTests(f, t), r, e, m>> :
        f \in FuzzyFlags,
        t \in {x \in TestsByType : x.none \/ x.values = << <<"b.html", "a.html">> >>},
        r \in BOOLEAN, e \in {TestPaths}, m \in {1}}
    \cup {<<WithTests(f, t), r, e, m>> :
             f \in StabilityFlags, t \in TestsByType, r \in {TRUE},
             e \in SUBSET TestPaths, m \in {None} \cup (1..MaxTests)}

\* a call whose arguments are given and which has not run yet
Given(arg) ==
    [op |-> "given", name |-> NoName, arg |-> arg, err |-> "none", pre |-> <<>>,
     out |-> <<>>]

DoPushArgs ==
    /\ last.op = "given"
    /\ PushArgs(last.arg.self, last.arg.can_push_routes, last.arg.exists,
                last.arg.max_tests)

\* a TryFuzzyCommit with its attributes set, about to push
InitArgs ==
    /\ InitStore
    /\ \E i \in ArgsInputs :
           last = Given([self |-> i[1], can_push_routes |-> i[2], exists |-> i[3],
                         max_tests |-> i[4]])

NextArgs == DoPushArgs
SpecArgs == InitArgs /\ [][NextArgs]_vars

----------------------------------------------------------------------------
(* TryPushTasks.retrigger_failures *)

\* tc.EXCEPTION
EXCEPTION == "exception"
TaskStates == {SUCCESS, FAIL, EXCEPTION}

\* task names, as the pieces they are written from
JobNames == {<<"test-linux64", "/opt-wpt-1">>,
             <<"test-linux64", "/opt-wpt-2">>,
             <<"test-linux64", "-aarch64", "/opt-wpt-1">>}

\* the wpt tasks of a task group: the task id of a task is its place in the list
TaskLists ==
    UNION {{[i \in 1..n |-> [name |-> f[i][1], state |-> f[i][2], taskId |-> i]] :
               f \in [1..n -> JobNames \X TaskStates]} : n \in 0..MaxTasks}

\* wpt_tasks.by_name(): the names in the order of their first task
names_in_order(tasks) ==
    LET first == {i \in DOMAIN tasks :
                     \A j \in DOMAIN tasks : j < i => tasks[j].name # tasks[i].name}
    IN  [k \in 1..Cardinality(first) |->
            tasks[CHOOSE i \in first : Cardinality({j \in first : j < i}) = k - 1].name]

RECURSIVE states_from(_, _, _, _)
\* lines 543-548 for one name: the tasks of that name from place i on are
\* counted into data
states_from(tasks, name, i, data) ==
    IF i > Len(tasks)
    THEN data
    ELSE IF tasks[i].name = name
         THEN states_from(tasks, name, i + 1,
                  [task_id |-> tasks[i].taskId,
                   states |-> [data.states EXCEPT ![tasks[i].state] = @ + 1]])
         ELSE states_from(tasks, name, i + 1, data)

\* TryPushTasks.wpt_states
wpt_states(tasks) ==
    [name \in {tasks[i].name : i \in DOMAIN tasks} |->
        states_from(tasks, name, 1,
                    [task_id |-> None, states |-> [st \in TaskStates |-> 0]])]

is_failure_fail_only(task_data) == task_data.states[FAIL] > 0

is_failure(task_data) ==
    task_data.states[FAIL] > 0 \/ task_data.states[EXCEPTION] > 0

\* "-aarch64" in name
is_excluded(name) == \E i \in DOMAIN name : name[i] = "-aarch64"

RECURSIVE retrigger_from(_, _, _, _, _, _)
\* lines 523-530: the names from place k on; jobs[t] is the number of jobs that
\* auth_tc.retrigger creates for task t (0: it returns nothing)
retrigger_from(task_states, names, k, count, jobs, done) ==
    IF k > Len(names)
    THEN done
    ELSE LET data == task_states[names[k]]
         IN  IF is_failure(data) /\ ~is_excluded(names[k])
             THEN retrigger_from(task_states, names, k + 1, count, jobs,
                      [requests |-> Append(done.requests,
                                           [task_id |-> data.task_id,
                                            count |-> count]),
                       retriggered_count |->
                           IF jobs[data.task_id] # 0
                           THEN done.retriggered_count + jobs[data.task_id]
                           ELSE done.retriggered_count])
             ELSE retrigger_from(task_states, names, k + 1, count, jobs, done)

\* TryPushTasks.retrigger_failures
retrigger_failures(tasks, count, jobs) ==
    retrigger_from(wpt_states(tasks), names_in_order(tasks), 1, count, jobs,
                   [requests |-> <<>>, retriggered_count |-> 0])

RetriggerFailures(tasks, count, jobs) ==
    /\ last.op = "given"
    /\ last' = [op |-> "retrigger_failures", name |-> NoName,
                arg |-> [tasks |-> tasks, count |-> count, jobs |-> jobs],
                err |-> "none", pre |-> <<>>,
                out |-> retrigger_failures(tasks, count, jobs)]
    /\ UNCHANGED <<pushes, seq, tryIdx, tgIdx, wt, comments, lock, calls, made,
                   session>>

\* _retrigger_count
retrigger_count == 6

DoRetriggerFailures ==
    /\ last.op = "given"
    /\ RetriggerFailures(last.arg.tasks, last.arg.count, last.arg.jobs)

\* a task group, the count asked for and what each retrigger request creates
InitRetrigger ==
    /\ InitStore
    /\ \E tasks \in TaskLists, count \in {1, retrigger_count} :
          \E jobs \in [DOMAIN tasks -> {0, count}] :
              last = Given([tasks |-> tasks, count |-> count, jobs |-> jobs])

NextRetrigger == DoRetriggerFailures
SpecRetrigger == InitRetrigger /\ [][NextRetrigger]_vars

\* a Try-Push as create() leaves it, with a try-rev, and a call of
\* download_logs about to be made on it
InitLogs ==
    /\ pushes = AddPush(<<>>, LogPush, NewData(LogPush[1], LogRev))
    /\ seq = [s \in Syncs |-> IF s = LogPush[1] THEN LogPush[2] + 1 ELSE 1]
    /\ tryIdx = {<<MakeKey(LogRev), LogPush>>}
    /\ tgIdx = {}
    /\ wt = [s \in Syncs |-> [head |-> BaseCommit(s), dirty |-> FALSE]]
    /\ comments = <<>>
    /\ lock = {}
    /\ calls = [w \in Workers |-> IdleCall]
    /\ made = <<LogPush>>
    /\ session = [sync |-> <<>>, pulls |-> {}]
    /\ \E wpt_tasks \in LogTaskLists, first_only \in BOOLEAN :
          last = Given([p |-> LogPush, wpt_tasks |-> wpt_tasks,
                        first_only |-> first_only])

NextLogs == DoDownloadLogs
SpecLogs == InitLogs /\ [][NextLogs]_vars

\* a stored Try-Push in any of the declared statuses, with any stored flag:
\* the record the infra_fail getter is written for
InitInfra ==
    /\ \E s \in Syncs, status \in statuses, flag \in {"none", "false", "true"} :
          pushes = AddPush(<<>>, <<s, 1>>,
                           [NewData(s, None) EXCEPT !.status = status,
                                                    !.infra_fail = flag])
    /\ seq = [s \in Syncs |-> IF <<s, 1>> \in DOMAIN pushes THEN 2 ELSE 1]
    /\ tryIdx = {}
    /\ tgIdx = {}
    /\ wt = [s \in Syncs |-> [head |-> BaseCommit(s), dirty |-> FALSE]]
    /\ comments = <<>>
    /\ lock = {}
    /\ calls = [w \in Workers |-> IdleCall]
    /\ made = <<CHOOSE n \in DOMAIN pushes : TRUE>>
    /\ session = [sync |-> <<>>, pulls |-> {}]
    /\ last = [op |-> "init", name |-> NoName, arg |-> <<>>, err |-> "none",
               pre |-> <<>>, out |-> <<>>]

\* reads and sets of the flag and sets of the status on the stored Try-Push
NextInfra ==
    \/ DoSetStatus
    \/ DoGetInfraFailWith(FailedBuilds)
    \/ DoSetInfraFailWith(FailedBuilds)
SpecInfra == InitInfra /\ [][NextInfra]_vars

Next ==
    \/ DoCreate
    \/ DoSetStatus
    \/ DoGetInfraFail
    \/ DoSetInfraFail
    \/ DoSetTryRev
    \/ DoSetTaskgroupId
    \/ DoTasks
    \/ DoBackfill
    \/ DoDelete
    \/ NextSteps
    \/ NextGitHub
    \/ NextPush
    \/ NextArgs
    \/ NextRetrigger

Spec == Init /\ [][Next]_vars

\* creation, status and the infra-fail flag
NextStatus ==
    \/ DoCreateWith(PlainInputs)
    \/ DoSetStatus
    \/ DoGetInfraFailWith(FailedBuilds)
    \/ DoSetInfraFailWith(FailedBuilds)
    \/ DoDelete
SpecStatus == Init /\ [][NextStatus]_vars

\* creation and the try-rev with its index
NextTryRev == DoCreateWith(PushedInputs) \/ DoSetTryRev \/ DoBackfill \/ DoDelete
SpecTryRev == Init /\ [][NextTryRev]_vars

\* creation and the task-group id with its index
NextTaskgroup == DoCreateWith(PushedInputs) \/ DoSetTaskgroupId \/ DoTasks \/ DoDelete
SpecTaskgroup == Init /\ [][NextTaskgroup]_vars

\* creation alone, with every way it can fail
NextCreate == DoCreate \/ DoDelete
SpecCreate == Init /\ [][NextCreate]_vars

\* creation alone, stopped by the tree or by the tool or not at all
NextCreateFail == DoCreateWith(EnteredInputs)
SpecCreateFail == Init /\ [][NextCreateFail]_vars

----------------------------------------------------------------------------
(* Claims *)

\* the edges the transitions table declares
DeclaredEdges == {<<"open", "complete">>, <<"complete", "open">>,
                  <<"infra-fail", "complete">>}

\* C1: every existing Try-Push has a status among open, complete and infra-fail,
\* and every step that changes the status of a Try-Push changes it along one of
\* the declared edges open->complete, complete->open, infra-fail->complete.
C1_StatusEnumeratedAndDeclared ==
    /\ [](\A p \in DOMAIN pushes :
            pushes[p].status \in {"open", "complete", "infra-fail"})
    /\ [][\A p \in DOMAIN pushes \cap DOMAIN pushes' :
            pushes'[p].status # pushes[p].status
                => <<pushes[p].status, pushes'[p].status>> \in DeclaredEdges]_vars

\* C1 witness: a reopened Try-Push (complete -> open) beside the sticky flag set
C1_Witness ==
    /\ last.op = "status"
    /\ last.err = "none"
    /\ last.pre = "complete"
    /\ last.arg = "open"
    /\ pushes[last.name].status = "open"
    /\ pushes[last.name].infra_fail = "true"

\* C2: every existing Try-Push with a non-null try-rev r is what TryCommitIndex
\* holds under r, and right after a create() whose output held revision=r the new
\* Try-Push has try-rev r and for_commit(r) returns it.
C2_TryRevIndexed ==
    /\ \A p \in DOMAIN pushes :
          pushes[p].try_rev # None => for_commit(pushes[p].try_rev) = p
    /\ (last.op = "create" /\ last.name \in DOMAIN pushes /\ last.arg.rev # None)
          => /\ pushes[last.name].try_rev = last.arg.rev
             /\ for_commit(last.arg.rev) = last.name

\* C3: no two distinct existing Try-Pushes have the same non-null try-rev.
C3_TryRevUnique ==
    \A p, q \in DOMAIN pushes :
        (p # q /\ pushes[p].try_rev # None)
            => pushes[p].try_rev # pushes[q].try_rev

\* C4: every existing Try-Push with a non-null taskgroup-id t is what
\* TaskGroupIndex holds under t, and no two distinct Try-Pushes hold the same
\* non-null taskgroup-id.
C4_TaskgroupIndexed ==
    /\ \A p \in DOMAIN pushes :
          pushes[p].taskgroup_id # None
              => for_taskgroup(pushes[p].taskgroup_id) = p
    /\ \A p, q \in DOMAIN pushes :
          (p # q /\ pushes[p].taskgroup_id # None)
              => pushes[p].taskgroup_id # pushes[q].taskgroup_id

\* C5: after try-rev or taskgroup-id of P was set from a (non-null) to another
\* value b, the index has no entry a -> P, and has the entry b -> P unless b is
\* null (a clear inserts nothing).
C5_SetterKeepsIndexClean ==
    /\ (last.op = "try_rev" /\ last.pre # None /\ last.pre # last.arg)
          => /\ <<MakeKey(last.pre), last.name>> \notin tryIdx
             /\ IF last.arg # None
                THEN <<MakeKey(last.arg), last.name>> \in tryIdx
                ELSE \A e \in tryIdx : e[2] # last.name
    /\ (last.op \in {"taskgroup_id", "tasks"} /\ last.pre # None
            /\ last.pre # pushes[last.name].taskgroup_id)
          => /\ <<MakeKey(last.pre), last.name>> \notin tgIdx
             /\ IF pushes[last.name].taskgroup_id # None
                THEN <<MakeKey(pushes[last.name].taskgroup_id), last.name>> \in tgIdx
                ELSE \A e \in tgIdx : e[2] # last.name

\* C6: right after delete() of P neither index holds an entry whose value is P,
\* so for_commit and for_taskgroup of the keys P held do not return P.
C6_DeletePurgesIndices ==
    last.op = "delete"
        => /\ \A e \in tryIdx \cup tgIdx : e[2] # last.name
           /\ last.pre.try_rev # None => for_commit(last.pre.try_rev) # last.name
           /\ last.pre.taskgroup_id # None
                 => for_taskgroup(last.pre.taskgroup_id) # last.name

\* C7 as stated: once the infra-fail flag of a Try-Push is true it is true in
\* every later state of that Try-Push.
C7_InfraFailSticky ==
    [][\A p \in DOMAIN pushes \cap DOMAIN pushes' :
          pushes[p].infra_fail = "true" => pushes'[p].infra_fail = "true"]_vars

\* C7 amended: a true infra-fail flag stays true through every status set,
\* infra_fail read and infra_fail set with a true value; the one step that
\* clears it is an infra_fail set with a false value on that Try-Push.
C7_InfraFailKeptUnlessSetFalse ==
    [][\A p \in DOMAIN pushes \cap DOMAIN pushes' :
          (/\ pushes[p].infra_fail = "true"
           /\ ~(last'.op = "infra_fail_set" /\ last'.name = p /\ last'.arg = "false"))
              => pushes'[p].infra_fail = "true"]_vars

\* C7 witness: a Try-Push whose flag is true took a status change and kept it
C7_Witness ==
    /\ last.op = "status"
    /\ last.err = "none"
    /\ last.pre = "open"
    /\ last.arg = "complete"
    /\ pushes[last.name].infra_fail = "true"
    /\ pushes[last.name].status = "complete"

\* C8: a status set with a value outside the enumeration, or with a different
\* value along an undeclared edge, raises a value error and leaves the stored
\* status as it was; any other status set raises nothing and the stored status
\* is the value set (open->complete and complete->open among them).
C8_StatusSetRejects ==
    last.op = "status"
        => IF \/ last.arg \notin {"open", "complete", "infra-fail"}
              \/ (last.pre # last.arg /\ <<last.pre, last.arg>> \notin DeclaredEdges)
           THEN last.err = "ValueError" /\ pushes[last.name].status = last.pre
           ELSE last.err = "none" /\ pushes[last.name].status = last.arg

\* C8 witness: open -> infra-fail was tried and rejected
C8_Witness ==
    /\ last.op = "status"
    /\ last.pre = "open"
    /\ last.arg = "infra-fail"
    /\ last.err = "ValueError"
    /\ pushes[last.name].status = "open"

\* C9: after a create() that builds its Try-Commit with hacks, however the scope
\* ended, the worktree head is the commit it was before the scope was entered.
C9_WorktreeHeadRestored ==
    (last.op = "create" /\ last.arg.hacks)
        => wt[last.name[1]].head = last.pre.head

\* C10: a create() stopped by a closed tree under check_open, or by a submission
\* tool that exits non-zero, raises a retryable error; a create() that raises a
\* retryable error leaves the records, the sequence ids, both indices and the
\* comments as they were; and with check_open false a closed tree does not stop
\* a create() whose scope is entered and whose tool exits with 0 from
\* persisting its record.
C10_CreateFailsAtomically ==
    [][last'.op = "create"
          => /\ ((last'.arg.check_open /\ ~last'.arg.is_open) \/ last'.arg.status > 0)
                    => last'.err = "RetryableError"
             /\ last'.err = "RetryableError"
                    => UNCHANGED <<pushes, seq, tryIdx, tgIdx, comments>>
             /\ (~last'.arg.check_open /\ ~last'.arg.is_open /\ last'.arg.status = 0)
                    => /\ last'.err # "RetryableError"
                       /\ last'.name \in DOMAIN pushes' \ DOMAIN pushes]_vars

\* C10 witness: with a Try-Push already stored, a create() whose tool exited
\* non-zero raised a retryable error
C10_Witness ==
    /\ last.op = "create"
    /\ last.err = "RetryableError"
    /\ last.arg.status = 1
    /\ last.arg.hacks
    /\ DOMAIN pushes # {}
    /\ Len(comments) = Cardinality(DOMAIN pushes)

\* C11: a create() call that returns has posted exactly one comment, and every
\* step that posts a comment is taken by a call whose record is already stored
\* with status open and, when its try-rev is not null, already entered in
\* TryCommitIndex under that try-rev.
C11_OneCommentAfterPersist ==
    [][/\ \A w \in Workers :
             (calls[w].pc # "idle" /\ calls'[w].pc = "idle" /\ last'.err = "none")
                 => /\ last'.out.posted = 1
                    /\ last'.name \in DOMAIN pushes'
       /\ comments' # comments
             => \E w \in Workers :
                   /\ calls[w].pc = "comment"
                   /\ calls'[w] # calls[w]
                   /\ Len(comments') = Len(comments) + 1
                   /\ calls[w].name \in DOMAIN pushes
                   /\ pushes[calls[w].name].status = "open"
                   /\ pushes[calls[w].name].try_rev = calls[w].try_rev
                   /\ calls[w].try_rev # None
                         => <<MakeKey(calls[w].try_rev), calls[w].name>> \in tryIdx]_vars

\* C11 witness: a create() returned a Try-Push with a try-rev, its one comment
\* posted, the record open and indexed
C11_Witness ==
    /\ last.op = "create"
    /\ last.err = "none"
    /\ last.arg.rev # None
    /\ last.out.posted = 1
    /\ last.name \in DOMAIN pushes
    /\ for_commit(last.arg.rev) = last.name
    /\ Len(comments) = Len(made)

\* C12: no two create() calls of one Sync are in progress together; the process
\* names persisted are pairwise distinct, those of one Sync carry sequence ids
\* that strictly increase in the order of creation, and every persisted name is
\* a record of its own.
C12_SerializedDistinctNames ==
    /\ \A v, w \in Workers :
          (v # w /\ calls[v].pc # "idle" /\ calls[w].pc # "idle")
              => calls[v].s # calls[w].s
    /\ \A i, j \in 1..Len(made) :
          i < j => /\ made[i] # made[j]
                   /\ made[i][1] = made[j][1] => made[i][2] < made[j][2]
    /\ Cardinality(DOMAIN pushes) = Len(made)

\* C12 witness: two Try-Pushes were created for one Sync, one after the other
C12_Witness ==
    /\ Len(made) >= 2
    /\ made[1][1] = made[2][1]
    /\ made[1][2] < made[2][2]
    /\ made[1] \in DOMAIN pushes
    /\ made[2] \in DOMAIN pushes

\* a state of two create() calls of distinct Syncs in progress together
C12_Interleaved ==
    \E v, w \in Workers :
        /\ v # w
        /\ calls[v].pc = "persist"
        /\ calls[w].pc = "insert"
        /\ calls[v].s # calls[w].s

\* the calls of a trace that run a status handler
StatusHandlerCalls(trace) ==
    {i \in DOMAIN trace :
        trace[i].call \in {"upstream.status_changed", "downstream.status_changed"}}

\* C13: a status event whose context is "upstream/gecko", whatever its sha,
\* status and url, makes the handler return without an error, without any call
\* (no fetch of PR refs, no new Sync, no status handler) and with the Sync table
\* as it was.
C13_OwnStatusIgnored ==
    (/\ last.op = "github"
     /\ last.arg.body.event = "status"
     /\ last.arg.body.payload.context = "upstream/gecko")
        => /\ last.err = "none"
           /\ last.out = <<>>
           /\ session = last.pre

\* C13 witness: the ignored status was for the head of a PR that has an upstream
\* Sync
C13_Witness ==
    /\ last.op = "github"
    /\ last.arg.body.event = "status"
    /\ last.arg.body.payload.context = "upstream/gecko"
    /\ last.arg.body.payload.sha \in DOMAIN last.arg.pr_refs
    /\ last.arg.pr_refs[last.arg.body.payload.sha] \in DOMAIN session.sync
    /\ session.sync[last.arg.pr_refs[last.arg.body.payload.sha]] = "upstream"
    /\ last.out = <<>>

\* C15: for a status event of another context, with the calls made not failing:
\* when the commit is the head of no PR no status handler runs and the Sync
\* table is as it was; when it is the head of PR n and n has no Sync, a
\* downstream Sync of n is made before any status handler runs and no other Sync
\* changes; when n has a Sync the table is as it was; and with a PR n exactly
\* one status handler runs, the upstream one iff the Sync of n is upstream and
\* the downstream one iff it is downstream.
C15_StatusRoutedBySync ==
    (/\ last.op = "github"
     /\ last.arg.body.event = "status"
     /\ last.arg.body.payload.context # "upstream/gecko"
     /\ last.arg.fail = "none")
        => LET sha == last.arg.body.payload.sha
               refs == last.arg.pr_refs
               ran == StatusHandlerCalls(last.out)
           IN  IF sha \notin DOMAIN refs
               THEN ran = {} /\ session = last.pre
               ELSE LET n == refs[sha]
                    IN  /\ last.err = "none"
                        /\ n \in DOMAIN session.sync
                        /\ IF n \in DOMAIN last.pre.sync
                           THEN session = last.pre
                           ELSE /\ session.sync[n] = "downstream"
                                /\ \A m \in DOMAIN last.pre.sync :
                                      /\ m \in DOMAIN session.sync
                                      /\ session.sync[m] = last.pre.sync[m]
                                /\ DOMAIN session.sync = DOMAIN last.pre.sync \cup {n}
                                /\ \E i \in DOMAIN last.out :
                                      /\ last.out[i] = Call("downstream.new_wpt_pr", n)
                                      /\ \A j \in ran : i < j
                        /\ Cardinality(ran) = 1
                        /\ \A j \in ran :
                              /\ last.out[j].pr = n
                              /\ last.out[j].call = "upstream.status_changed"
                                    <=> session.sync[n] = "upstream"
                              /\ last.out[j].call = "downstream.status_changed"
                                    <=> session.sync[n] = "downstream"

\* C15 witness: a status for the head of a PR without a Sync, beside a PR with an
\* upstream Sync: the downstream Sync was made and the downstream handler ran
C15_Witness ==
    /\ last.op = "github"
    /\ last.arg.body.event = "status"
    /\ last.arg.body.payload.context # "upstream/gecko"
    /\ last.arg.fail = "none"
    /\ last.arg.body.payload.sha \in DOMAIN last.arg.pr_refs
    /\ last.arg.pr_refs[last.arg.body.payload.sha] \notin DOMAIN last.pre.sync
    /\ \E m \in DOMAIN last.pre.sync : last.pre.sync[m] = "upstream"
    /\ \E j \in DOMAIN last.out : last.out[j].call = "downstream.status_changed"

\* C16: a pull_request event {action, number, pull_request} (no call made
\* failing) leaves the PR in the metadata cache; it leaves a new Sync, a
\* downstream one of that PR, if and only if the PR had no Sync and the action
\* is opened, and then without an error; for a PR that had a Sync the Sync table
\* is as it was.
C16_PrCreatesSyncWhenOpened ==
    (/\ last.op = "github"
     /\ last.arg.body.event = "pull_request"
     /\ last.arg.body.payload.payload = None
     /\ last.arg.fail = "none")
        => LET n == last.arg.body.payload.number
               new == DOMAIN session.sync \ DOMAIN last.pre.sync
           IN  /\ n \in session.pulls
               /\ new # {} <=> (n \notin DOMAIN last.pre.sync
                                /\ last.arg.body.payload.action = "opened")
               /\ new # {} => /\ new = {n}
                             /\ session.sync[n] = "downstream"
                             /\ last.err = "none"
               /\ n \in DOMAIN last.pre.sync => session.sync = last.pre.sync

\* C17: an event whose handler raised has, as the last entry of its trace, the
\* CRITICAL log of the exception, and the error reaches the caller; an event of
\* a kind without a handler ends in an error with no call made.
C17_ExceptionsLoggedAndRaised ==
    last.op = "github"
        => IF last.arg.body.event \in {"pull_request", "status", "push"}
           THEN (\/ last.err # "none"
                 \/ (last.arg.fail = "status_changed"
                        /\ StatusHandlerCalls(last.out) # {}))
                   => /\ last.err # "none"
                      /\ last.out # <<>>
                      /\ last.out[Len(last.out)].call = "logger.critical"
           ELSE last.err # "none" /\ last.out = <<>>

\* the integration repos whose configured URL, put to scheme https, is url
IntegrationMatches(config, url) ==
    {n \in RepoNames : /\ config.integration[n].rest = url.rest
                       /\ url.scheme = "https"}

\* C14 as stated: a push whose repo_url is the landing repo calls
\* landing_commit; one whose repo_url is an integration URL (put to https) calls
\* integration_commit with a repo of that URL; a push calls at most one of the
\* two, and none when repo_url is neither.
C14_PushRouted ==
    last.op = "push"
        => LET c == last.arg.config
               u == last.arg.repo_url
               m == IntegrationMatches(c, u)
           IN  /\ u = c.landing
                    => \E i \in DOMAIN last.out :
                          last.out[i].call = "upstream.landing_commit"
               /\ m # {}
                    => \E i \in DOMAIN last.out :
                          /\ last.out[i].call = "upstream.integration_commit"
                          /\ last.out[i].repo \in m
               /\ Len(last.out) <= 1
               /\ (u # c.landing /\ m = {}) => last.out = <<>>

\* C14 amended: a push whose repo_url is an integration URL (put to https)
\* calls integration_commit with a repo of that URL and the first head, and
\* nothing else; one whose repo_url is the landing repo and no integration URL
\* calls landing_commit with the first head, and nothing else; any other push
\* calls nothing.
C14_PushRoutedIntegrationFirst ==
    last.op = "push"
        => LET c == last.arg.config
               u == last.arg.repo_url
               m == IntegrationMatches(c, u)
           IN  IF m # {}
               THEN /\ Len(last.out) = 1
                    /\ last.out[1].call = "upstream.integration_commit"
                    /\ last.out[1].repo \in m
                    /\ last.out[1].rev = last.arg.heads[1]
               ELSE IF u = c.landing
                    THEN /\ Len(last.out) = 1
                         /\ last.out[1].call = "upstream.landing_commit"
                         /\ last.out[1].rev = last.arg.heads[1]
                    ELSE last.out = <<>>

\* C14 witness: a push to an https URL that an integration repo is configured
\* with under scheme http, the landing repo being another one
C14_Witness ==
    /\ last.op = "push"
    /\ last.arg.repo_url.scheme = "https"
    /\ last.arg.config.landing # last.arg.repo_url
    /\ \E n \in RepoNames :
          /\ last.arg.config.integration[n].scheme = "http"
          /\ last.arg.config.integration[n].rest = last.arg.repo_url.rest
          /\ last.out = <<[call |-> "upstream.integration_commit", repo |-> n,
                           rev |-> last.arg.heads[1]]>>

RECURSIVE Flat(_, _)
\* the test paths of a tests_by_type, type after type, from type t on
Flat(values, t) ==
    IF t > Len(values) THEN <<>> ELSE values[t] \o Flat(values, t + 1)

\* the paths of items that exist, each at its first place only
ExistingOnce(items, exists) ==
    LET keep == {i \in DOMAIN items :
                    /\ items[i] \in exists
                    /\ \A j \in DOMAIN items : j < i => items[j] # items[i]}
    IN  [k \in 1..Cardinality(keep) |->
            items[CHOOSE i \in keep : Cardinality({j \in keep : j < i}) = k - 1]]

\* C18: the args are, in this order: fuzzy; -q <query> for each query in list
\* order; --rebuild <n> iff rebuild is not 0; --full iff full;
\* --disable-target-task-filter iff set; the route argument iff the tool's help
\* advertises --route; --artifact or else --no-artifact; then, iff tests are
\* given, the test paths that exist, each once in the order of their first
\* place, cut to the first max-tests of them when there are more.
C18_ArgvInOrder ==
    last.op = "_push"
        => LET a == last.arg.self
               q == [k \in 1..(2 * Len(a.queries)) |->
                        IF k % 2 = 1 THEN "-q" ELSE a.queries[k \div 2]]
               n == IF a.rebuild = 1 THEN <<"--rebuild", "1">>
                    ELSE IF a.rebuild = 5 THEN <<"--rebuild", "5">>
                    ELSE <<>>
               once == ExistingOnce(Flat(a.tests_by_type.values, 1), last.arg.exists)
               m == last.arg.max_tests
               p == IF a.tests_by_type.none THEN <<>>
                    ELSE IF m # None /\ Len(once) > m
                         THEN [k \in 1..m |-> once[k]]
                         ELSE once
           IN  last.out =
                  <<"fuzzy">> \o q \o n
                     \o (IF a.full THEN <<"--full">> ELSE <<>>)
                     \o (IF a.disable_target_task_filter
                         THEN <<"--disable-target-task-filter">> ELSE <<>>)
                     \o (IF last.arg.can_push_routes
                         THEN <<"--route=notify.pulse.wptsync.try-task.on-any">>
                         ELSE <<>>)
                     \o <<IF a.artifact THEN "--artifact" ELSE "--no-artifact">>
                     \o p

\* C18 witness: a stability push (--rebuild 5) whose tests, one of them given
\* twice and one that does not exist, were cut to the first max-tests
C18_Witness ==
    /\ last.op = "_push"
    /\ last.arg.self.rebuild = 5
    /\ last.arg.max_tests = 1
    /\ last.arg.self.tests_by_type.values = << <<"c.html", "b.html">>, <<"b.html", "a.html">> >>
    /\ last.arg.exists = {"a.html", "b.html"}
    /\ last.out = <<"fuzzy", "-q", "wpt !asan", "--rebuild", "5",
                    "--route=notify.pulse.wptsync.try-task.on-any", "--artifact",
                    "b.html">>

RECURSIVE JobsCreated(_, _, _)
\* the jobs created by the requests from place k on
JobsCreated(requests, jobs, k) ==
    IF k > Len(requests) THEN 0
    ELSE jobs[requests[k].task_id] + JobsCreated(requests, jobs, k + 1)

\* C19: retrigger_failures(count) issues, for every task name with a task in
\* state failed or exception and without "-aarch64" in it, exactly one request,
\* for count runs of a task of that name; it issues no request for a task of
\* any other name; and it returns the sum of the jobs its requests created.
C19_RetriggerPerFailingName ==
    last.op = "retrigger_failures"
        => LET tasks == last.arg.tasks
               reqs == last.out.requests
               For(n) == {k \in DOMAIN reqs : tasks[reqs[k].task_id].name = n}
               Failing(n) == \E i \in DOMAIN tasks :
                                /\ tasks[i].name = n
                                /\ tasks[i].state \in {"failed", "exception"}
               Aarch64(n) == \E i \in DOMAIN n : n[i] = "-aarch64"
           IN  /\ \A k \in DOMAIN reqs :
                     /\ reqs[k].task_id \in DOMAIN tasks
                     /\ reqs[k].count = last.arg.count
               /\ \A n \in JobNames :
                     Cardinality(For(n)) = IF Failing(n) /\ ~Aarch64(n) THEN 1 ELSE 0
               /\ last.out.retriggered_count = JobsCreated(reqs, last.arg.jobs, 1)

\* C19 witness: two failing names, one of them an aarch64 one, beside a name
\* whose task raised an exception: two requests, one of which created the jobs
C19_Witness ==
    /\ last.op = "retrigger_failures"
    /\ last.arg.count = 6
    /\ Len(last.arg.tasks) = 3
    /\ last.arg.tasks[1].name = <<"test-linux64", "-aarch64", "/opt-wpt-1">>
    /\ last.arg.tasks[1].state = "failed"
    /\ last.arg.tasks[2].state = "exception"
    /\ last.arg.tasks[3].state = "failed"
    /\ last.arg.tasks[2].name # last.arg.tasks[3].name
    /\ Len(last.out.requests) = 2
    /\ last.out.retriggered_count = 6

\* C20: an infra_fail set posts a comment if and only if the stored flag was not
\* true, the value set is true, the Try-Push has a bug and there is a failed
\* build; the comment is one, on that bug, listing the failed builds; and a set
\* with the value the flag already has leaves the records and the comments as
\* they were.
C20_InfraCommentOnRisingEdge ==
    [][last'.op = "infra_fail_set"
          => /\ comments' # comments
                    <=> /\ last'.pre.infra_fail # "true"
                        /\ last'.arg = "true"
                        /\ last'.pre.bug # None
                        /\ last'.out # <<>>
             /\ comments' # comments
                    => /\ Len(comments') = Len(comments) + 1
                       /\ \A i \in DOMAIN comments : comments'[i] = comments[i]
                       /\ comments'[Len(comments')].kind = "infra"
                       /\ comments'[Len(comments')].bug = last'.pre.bug
                       /\ comments'[Len(comments')].builds = last'.out
             /\ last'.arg = last'.pre.infra_fail
                    => /\ pushes' = pushes
                       /\ comments' = comments]_vars

\* C20 witness: the flag of a Try-Push rose, was cleared and rose again: two
\* infrastructure comments, one for each rising edge
C20_Witness ==
    /\ last.op = "infra_fail_set"
    /\ last.arg = "true"
    /\ last.pre.infra_fail = "false"
    /\ last.out # <<>>
    /\ Cardinality({i \in DOMAIN comments : comments[i].kind = "infra"}) = 2


\* the entries of both indices whose value names no stored Try-Push record
DanglingEntries == {e \in tryIdx \cup tgIdx : e[2] \notin DOMAIN pushes}

\* C21: after a crash between two statements of create(), of the try_rev or
\* taskgroup_id setter, or of delete(), every entry of TryCommitIndex and of
\* TaskGroupIndex points at the process name of a stored Try-Push record
C21_CrashLeavesValidEntries == last.op = "crash" => DanglingEntries = {}


\* download_logs has just run on a Try-Push whose try-rev was null
BackfillCase == last.op = "download_logs" /\ last.pre = None

\* logs were downloaded by the call that has just run
Downloaded == last.op = "download_logs" /\ last.err = "none"

\* a first task that carries a revision: try-rev becomes it and the index
\* gains revision -> process name, whether or not a download follows
C22_BackfillSetsRevAndIndex ==
    (BackfillCase /\ last.arg.wpt_tasks # <<>> /\ last.arg.wpt_tasks[1].rev # None)
        => /\ pushes[last.name].try_rev = last.arg.wpt_tasks[1].rev
           /\ <<MakeKey(last.arg.wpt_tasks[1].rev), last.name>> \in tryIdx

\* tasks without a readable revision: a value error, nothing downloaded, try-rev
\* still null
C22_NoRevisionIsValueError ==
    (BackfillCase /\ last.arg.wpt_tasks # <<>> /\ last.arg.wpt_tasks[1].rev = None)
        => /\ last.err = "ValueError"
           /\ last.out = <<>>
           /\ pushes[last.name].try_rev = None

\* no download while try-rev is null: the directory is the try-rev
C22_NoDownloadWithoutRev ==
    Downloaded => /\ pushes[last.name].try_rev # None
                  /\ last.out.path = pushes[last.name].try_rev

\* C22: download_logs on a Try-Push with a null try-rev sets try-rev and the
\* TryCommitIndex entry from the first task's GECKO_HEAD_REV before any
\* download, fails with a value error (nothing downloaded, try-rev null) when
\* tasks carry no revision, and never downloads while try-rev is null
C22_BackfillBeforeDownload ==
    /\ C22_BackfillSetsRevAndIndex
    /\ C22_NoRevisionIsValueError
    /\ C22_NoDownloadWithoutRev


\* C23: download_logs with first_only true keeps, of the tasks of each name, the
\* first one whatever its state and every later one whose state is SUCCESS, and
\* drops every later one in another state; with first_only false it keeps
\* every task.  The tasks kept stay in the order of the scan.
C23_FirstOnlyKeepsFirstAndSuccess ==
    Downloaded
        => LET tasks == last.arg.wpt_tasks
               kept == last.out.tasks
               Kept(i) == \E k \in DOMAIN kept : kept[k] = i
               Later(i) == \E j \in 1..(i - 1) : tasks[j].name = tasks[i].name
           IN  /\ \A k \in DOMAIN kept : kept[k] \in DOMAIN tasks
               /\ \A k, l \in DOMAIN kept : k < l => kept[k] < kept[l]
               /\ last.arg.first_only
                     => \A i \in DOMAIN tasks :
                            tasks[i].name # None
                                => (Kept(i) <=> ~Later(i) \/ tasks[i].state = SUCCESS)
               /\ ~last.arg.first_only => \A i \in DOMAIN tasks : Kept(i)

\* C23 witness: three tasks of one name, failed, failed and completed, asked
\* for with first_only: the first and the third are kept
C23_Witness ==
    /\ Downloaded
    /\ last.arg.first_only
    /\ Len(last.arg.wpt_tasks) = 3
    /\ \A i \in 1..3 : last.arg.wpt_tasks[i].name = 1
    /\ last.arg.wpt_tasks[1].state = FAIL
    /\ last.arg.wpt_tasks[2].state = FAIL
    /\ last.arg.wpt_tasks[3].state = SUCCESS
    /\ last.out.tasks = <<1, 3>>


\* C24: a read of infra_fail on a Try-Push whose status is infra-fail moves the
\* status to complete, sets the flag to true, posts the rising-edge comment
\* (when the flag was not yet true, the Try-Push has a bug and a build failed)
\* and returns true; on a Try-Push in any other status the read changes no
\* field, posts nothing and returns the stored flag, false if never set
C24_GetterRewritesInfraFail ==
    [][last'.op = "infra_fail_get"
         => LET p == last'.name
                failed == last'.arg
            IN  IF pushes[p].status = "infra-fail"
                THEN /\ last'.err = "none"
                     /\ pushes' = [pushes EXCEPT ![p].status = "complete",
                                                 ![p].infra_fail = "true"]
                     /\ last'.out = "true"
                     /\ comments' =
                            IF /\ pushes[p].infra_fail # "true"
                               /\ pushes[p].bug # None
                               /\ failed # <<>>
                            THEN Append(comments,
                                        [bug |-> pushes[p].bug, kind |-> "infra",
                                         rev |-> pushes[p].try_rev,
                                         builds |-> failed])
                            ELSE comments
                ELSE /\ last'.err = "none"
                     /\ pushes' = pushes
                     /\ comments' = comments
                     /\ last'.out = IF pushes[p].infra_fail = "none"
                                    THEN "false"
                                    ELSE pushes[p].infra_fail]_vars

\* C24 witness: the read found status infra-fail and no flag, and left status
\* complete and the flag true, with the comment on the failed build posted
C24_Witness ==
    /\ last.op = "infra_fail_get"
    /\ last.pre.status = "infra-fail"
    /\ last.pre.infra_fail = "none"
    /\ last.out = "true"
    /\ pushes[last.name].status = "complete"
    /\ pushes[last.name].infra_fail = "true"
    /\ Len(comments) = 1
    /\ comments[1].kind = "infra"


\* C25: no Try-Push made by create() is ever in status infra-fail: whatever
\* create, the status setter and the flag's getter and setter do, every status
\* is open or complete, no accepted status set leaves infra-fail, and no read
\* of infra_fail finds the status infra-fail to rewrite
C25_InfraFailUnreachable ==
    /\ \A p \in DOMAIN pushes : pushes[p].status \in {"open", "complete"}
    /\ (last.op = "status" /\ last.err = "none") => last.pre # "infra-fail"
    /\ last.op = "infra_fail_get"
          => /\ last.pre.status # "infra-fail"
             /\ last.name \in DOMAIN pushes => pushes[last.name] = last.pre

\* C25 witness: a Try-Push that went from open to complete is asked to go to
\* infra-fail; the set is refused and the status stays complete
C25_Witness ==
    /\ last.op = "status"
    /\ last.arg = "infra-fail"
    /\ last.pre = "complete"
    /\ last.err = "ValueError"
    /\ pushes[last.name].status = "complete"

====
